---------------------------- MODULE Spec2Model ----------------------------
(***************************************************************************)
(* A model of pylightxl's reader, _src/readxl.py: readxl() and the helpers *)
(* it calls.  Text (a path, an archive entry name, the decoded content of  *)
(* an XML part) is a sequence of one-character strings, so that the        *)
(* regular expressions, the splits and the substring tests of the source   *)
(* are computed on characters as Python computes them.  The texts of the   *)
(* model hold no newline (Excel writes each part on one line), so the '.'  *)
(* of a regular expression matches every character.                        *)
(***************************************************************************)
EXTENDS Integers, Sequences, FiniteSets, TLC

(***************************************************************************)
(* Bounds of the model.                                                    *)
(***************************************************************************)
MaxSheets == 2
MaxParts == 2
MaxReq == 3
MaxCells == 2

(***************************************************************************)
(* String literals of the source.                                          *)
(***************************************************************************)
TAG_SHEETS_OPEN == <<"<", "s", "h", "e", "e", "t", "s", ">">>
TAG_SHEETS_CLOSE == <<"<", "/", "s", "h", "e", "e", "t", "s", ">">>
SELF_CLOSE == <<"/", ">">>
QUOTE == <<"\"">>
DOT == <<".">>
SHEET == <<"s", "h", "e", "e", "t">>
WORKBOOK_XML == <<"x", "l", "/", "w", "o", "r", "k", "b", "o", "o", "k", ".", "x", "m", "l">>
SHAREDSTRINGS_XML == <<"x", "l", "/", "s", "h", "a", "r", "e", "d", "S", "t", "r", "i", "n", "g", "s", ".", "x", "m", "l">>
TAG_T_OPEN == <<"<", "t", ">">>
TAG_T_CLOSE == <<"<", "/", "t", ">">>
TAG_SHEETDATA_OPEN == <<"<", "s", "h", "e", "e", "t", "D", "a", "t", "a", ">">>
TAG_SHEETDATA_CLOSE == <<"<", "/", "s", "h", "e", "e", "t", "D", "a", "t", "a", ">">>
TAG_CR == <<"<", "c", " ", "r", "=">>
EXCL == <<"<", "r", " ", "c", "=", "\"">>
T_S == <<"t", "=", "\"", "s", "\"">>
TAG_V_OPEN == <<"<", "v", ">">>
TAG_V_CLOSE == <<"<", "/", "v", ">">>
XLSX == <<"x", "l", "s", "x">>
XLSM == <<"x", "l", "s", "m">>
Digits == <<"0", "1", "2", "3", "4", "5", "6", "7", "8", "9">>

(***************************************************************************)
(* Python values: a result is a value or a raised exception.               *)
(***************************************************************************)
NoError == [type |-> "none", msg |-> "", arg |-> <<>>]
Exception(t, m, a) == [type |-> t, msg |-> m, arg |-> a]
IndexError == Exception("IndexError", "", <<>>)
KeyError == Exception("KeyError", "", <<>>)
Ok(v) == [ok |-> TRUE, val |-> v, err |-> NoError]
Raise(e) == [ok |-> FALSE, val |-> <<>>, err |-> e]

EmptyDict == [k \in {} |-> <<>>]
\* a variant of DictUpdate that keeps the value a key already has
DictUpdate_keepfirst(d, k, v) ==
    [x \in (DOMAIN d) \cup {k} |-> IF x \in DOMAIN d THEN d[x] ELSE v]
DictUpdate(d, k, v) == [x \in (DOMAIN d) \cup {k} |-> IF x = k THEN v ELSE d[x]]

(***************************************************************************)
(* str and re primitives.                                                  *)
(***************************************************************************)
MatchAt(s, pat, i) ==
    /\ i >= 1
    /\ i + Len(pat) - 1 <= Len(s)
    /\ \A k \in 1..Len(pat) : s[i + k - 1] = pat[k]

\* index of the first occurrence of pat in s at or after from; 0 when none
Find(s, pat, from) ==
    LET hits == {i \in from..(Len(s) - Len(pat) + 1) : MatchAt(s, pat, i)}
    IN  IF hits = {} THEN 0 ELSE CHOOSE i \in hits : \A j \in hits : i <= j

\* index of the last occurrence of pat in s at or after from; 0 when none
FindLast(s, pat, from) ==
    LET hits == {i \in from..(Len(s) - Len(pat) + 1) : MatchAt(s, pat, i)}
    IN  IF hits = {} THEN 0 ELSE CHOOSE i \in hits : \A j \in hits : i >= j

\* pat in s
Contains(s, pat) == Find(s, pat, 1) # 0

\* s.split(sep), and re.split of a pattern without metacharacters
RECURSIVE Split(_, _)
Split(s, sep) ==
    LET i == Find(s, sep, 1)
    IN  IF i = 0 THEN <<s>>
        ELSE <<SubSeq(s, 1, i - 1)>> \o Split(SubSeq(s, i + Len(sep), Len(s)), sep)

\* re.compile('(?<=open)(.*)(?=close)').findall(s)[0]: the first match starts
\* right after the first open and, '.*' being greedy, ends before the last close
LookaroundFirst(s, open, close) ==
    LET o == Find(s, open, 1)
        b == IF o = 0 THEN 0 ELSE o + Len(open)
        e == IF o = 0 THEN 0 ELSE FindLast(s, close, b)
    IN  IF o = 0 \/ e = 0 THEN Raise(IndexError) ELSE Ok(SubSeq(s, b, e - 1))

\* re.compile('open(.*?)close').findall(s): the groups of the successive
\* non-overlapping matches, each ending at the nearest close
RECURSIVE LazyFindAll(_, _, _)
LazyFindAll(s, open, close) ==
    LET o == Find(s, open, 1)
        b == IF o = 0 THEN 0 ELSE o + Len(open)
        e == IF o = 0 THEN 0 ELSE Find(s, close, b)
    IN  IF o = 0 \/ e = 0 THEN <<>>
        ELSE <<SubSeq(s, b, e - 1)>>
             \o LazyFindAll(SubSeq(s, e + Len(close), Len(s)), open, close)

IsDigit(c) == \E d \in 1..10 : Digits[d] = c
DigitVal(c) == (CHOOSE d \in 1..10 : Digits[d] = c) - 1

\* int(s) for a string of decimal digits; any other string of the model's
\* alphabet makes int() raise ValueError
RECURSIVE DecimalValue(_)
DecimalValue(s) ==
    IF s = <<>> THEN 0
    ELSE 10 * DecimalValue(SubSeq(s, 1, Len(s) - 1)) + DigitVal(s[Len(s)])

int(s) ==
    IF s # <<>> /\ \A k \in 1..Len(s) : IsDigit(s[k])
    THEN Ok(DecimalValue(s))
    ELSE Raise(Exception("ValueError", "invalid literal for int()", s))

\* a variant of check_excelfile without the test of the extension
check_excelfile_anyext(fn, isfile) ==
    IF ~fn.isStr
    THEN Raise(Exception("ValueError", "Incorrect file entry", fn.s))
    ELSE IF ~isfile
    THEN Raise(Exception("ValueError", "File does not exit", fn.s))
    ELSE Ok(<<>>)

(***************************************************************************)
(* check_excelfile(fn).  fn is [isStr, s]: whether the argument is a str,  *)
(* and its characters; isfile is os.path.isfile(fn).                       *)
(***************************************************************************)
check_excelfile(fn, isfile) ==
    IF ~fn.isStr
    THEN Raise(Exception("ValueError", "Incorrect file entry", fn.s))
    ELSE IF ~isfile
    THEN Raise(Exception("ValueError", "File does not exit", fn.s))
    ELSE LET segments == Split(fn.s, DOT)
             extension == segments[Len(segments)]
         IN  IF extension \notin {XLSX, XLSM}
             THEN Raise(Exception("ValueError", "Incorrect Excel file extension", extension))
             ELSE Ok(<<>>)

(***************************************************************************)
(* get_sheetnames(file): the sheet names of xl/workbook.xml.               *)
(***************************************************************************)
RECURSIVE SheetLineNames(_)
SheetLineNames(sheet_lines) ==
    IF sheet_lines = <<>> THEN Ok(<<>>)
    ELSE LET fields == Split(Head(sheet_lines), QUOTE)
             rest == SheetLineNames(Tail(sheet_lines))
         IN  IF Len(fields) < 2 THEN Raise(IndexError)
             ELSE IF ~rest.ok THEN rest
             ELSE Ok(<<fields[2]>> \o rest.val)

get_sheetnames(text) ==
    LET sheet_section == LookaroundFirst(text, TAG_SHEETS_OPEN, TAG_SHEETS_CLOSE)
    IN  IF ~sheet_section.ok THEN sheet_section
        ELSE LET pieces == Split(sheet_section.val, SELF_CLOSE)
                 sheet_lines == SubSeq(pieces, 1, Len(pieces) - 1)
             IN  SheetLineNames(sheet_lines)

(***************************************************************************)
(* get_zipsheetnames(zipfile): the entry names that contain 'sheet', in    *)
(* the order of the archive's directory.                                   *)
(***************************************************************************)
IsSheetEntry(name) == Contains(name, SHEET)
get_zipsheetnames(names) == SelectSeq(names, IsSheetEntry)

(***************************************************************************)
(* get_sharedStrings(file): the dict {rank: text} of the <t> elements.     *)
(***************************************************************************)
\* a variant of get_sharedStrings that counts the <t> elements from 1
get_sharedStrings_rank1(text) ==
    LET tag_t_vals == LazyFindAll(text, TAG_T_OPEN, TAG_T_CLOSE)
    IN  [i \in 1..Len(tag_t_vals) |-> tag_t_vals[i]]
get_sharedStrings(text) ==
    LET tag_t_vals == LazyFindAll(text, TAG_T_OPEN, TAG_T_CLOSE)
    IN  [i \in 0..(Len(tag_t_vals) - 1) |-> tag_t_vals[i + 1]]

(***************************************************************************)
(* scrape_worksheetxml(file, sharedString): the dict {address: value} of   *)
(* one worksheet part.                                                     *)
(***************************************************************************)
\* re.compile('[^<r c="][^"]+').findall(line)[0]
re_cell_address(line) ==
    LET starts == {i \in 1..(Len(line) - 1) :
                      /\ \A k \in 1..Len(EXCL) : line[i] # EXCL[k]
                      /\ line[i + 1] # QUOTE[1]}
        b == CHOOSE i \in starts : \A j \in starts : i <= j
        q == Find(line, QUOTE, b + 1)
        e == IF q = 0 THEN Len(line) ELSE q - 1
    IN  IF starts = {} THEN Raise(IndexError) ELSE Ok(SubSeq(line, b, e))

\* a variant of SharedStringLookup that gives '' for a missing index
SharedStringLookup_default(sharedString, index) ==
    IF index \in DOMAIN sharedString THEN Ok(sharedString[index]) ELSE Ok(<<>>)
\* the sharedString[int(cell_val)] of a string cell
SharedStringLookup(sharedString, index) ==
    IF index \in DOMAIN sharedString THEN Ok(sharedString[index]) ELSE Raise(KeyError)

\* one iteration of the loop over tag_cr_lines
ScrapeLine(data, tag_cr_line, sharedString) ==
    LET cell_address == re_cell_address(tag_cr_line)
        cell_string == Contains(tag_cr_line, T_S)
        cell_val == LookaroundFirst(tag_cr_line, TAG_V_OPEN, TAG_V_CLOSE)
        index == int(cell_val.val)
        looked == SharedStringLookup(sharedString, index.val)
    IN  IF ~cell_address.ok THEN cell_address
        ELSE IF ~cell_val.ok THEN cell_val
        ELSE IF ~cell_string THEN Ok(DictUpdate(data, cell_address.val, cell_val.val))
        ELSE IF ~index.ok THEN index
        ELSE IF ~looked.ok THEN looked
        ELSE Ok(DictUpdate(data, cell_address.val, looked.val))

RECURSIVE ScrapeLines(_, _, _)
ScrapeLines(data, tag_cr_lines, sharedString) ==
    IF tag_cr_lines = <<>> THEN Ok(data)
    ELSE LET step == ScrapeLine(data, Head(tag_cr_lines), sharedString)
         IN  IF ~step.ok THEN step
             ELSE ScrapeLines(step.val, Tail(tag_cr_lines), sharedString)

\* the fragments that follow each '<c r=' of the <sheetData> section
CellLines(sheetdata_section) == Tail(Split(sheetdata_section, TAG_CR))

scrape_worksheetxml(text, sharedString) ==
    LET sheetdata_section ==
            LookaroundFirst(text, TAG_SHEETDATA_OPEN, TAG_SHEETDATA_CLOSE)
    IN  IF ~sheetdata_section.ok THEN sheetdata_section
        ELSE ScrapeLines(EmptyDict, CellLines(sheetdata_section.val), sharedString)

\* readxl imports scrape from readxl_scrape, the compiled build of the
\* scraper; it is taken to compute what scrape_worksheetxml computes
scrape(text, sharedString) == scrape_worksheetxml(text, sharedString)

(***************************************************************************)
(* database.Database, as readxl uses it: Database() is empty and add_ws    *)
(* keys a sheet's data by its name.                                        *)
(***************************************************************************)
Database == EmptyDict
add_ws(database, sheetname, data) == DictUpdate(database, sheetname, data)

(***************************************************************************)
(* zipfile.ZipFile, as readxl uses it.                                     *)
(***************************************************************************)
NoZip == [open |-> FALSE, NameToInfo |-> <<>>]

\* ZipFile(fn, 'r'): the directory of the archive, the file left as it is
ZipFile(file) ==
    [open |-> TRUE,
     NameToInfo |-> [k \in 1..Len(file.entries) |-> file.entries[k].name]]

\* a variant of FileAfterOpen for an archive opened in mode 'w': truncated
FileAfterOpen_truncate(file) == [file EXCEPT !.entries = <<>>]

\* the file on disk once ZipFile(fn, 'r') has opened it: mode 'r' writes nothing
FileAfterOpen(file) == file

\* a variant of ZipExit for an archive opened without 'with': left open
ZipExit_leak(zip) == zip

\* what leaving the block of 'with zipfile.ZipFile(fn, "r") as f_zip' does
ZipExit(zip) == [zip EXCEPT !.open = FALSE]

\* name in f_zip.NameToInfo.keys()
HasEntry(zip, name) == \E k \in 1..Len(zip.NameToInfo) : zip.NameToInfo[k] = name

\* f_zip.open(name).read().decode()
EntryText(file, name) ==
    LET k == CHOOSE j \in 1..Len(file.entries) : file.entries[j].name = name
    IN  file.entries[k].text

\* sh_names.index(sn), zero-based
ListIndex(list, x) == (CHOOSE k \in 1..Len(list) : list[k] = x /\ \A j \in 1..(k - 1) : list[j] # x) - 1

\* zip_sheetnames.pop(pop_index), the list that is left
ListPop(list, index) == SubSeq(list, 1, index) \o SubSeq(list, index + 2, Len(list))

VARIABLES
    fn,             \* the fn argument of readxl
    sheetnames,     \* the sheetnames argument of readxl
    disk,           \* the file that fn names: [exists, zip, entries]
    pc,             \* the position of the running call in readxl
    call,           \* 1 in the first call of readxl, 2 in the second
    db,             \* readxl's db
    f_zip,          \* readxl's f_zip
    sh_names,       \* readxl's sh_names
    zip_sheetnames, \* readxl's zip_sheetnames
    sharedString,   \* readxl's sharedString
    sn_i,           \* the position of the loop 'for sn in sheetnames'
    i,              \* the i of the loop over zip_sheetnames
    io,             \* what the running call did with the file so far
    outcome,        \* what the running call gave its caller
    first           \* what the first call gave its caller

vars == <<fn, sheetnames, disk, pc, call, db, f_zip, sh_names, zip_sheetnames,
          sharedString, sn_i, i, io, outcome, first>>

NoOutcome == [kind |-> "none", value |-> EmptyDict, err |-> NoError]
Returned(v) == [kind |-> "returned", value |-> v, err |-> NoError]
Raised(e) == [kind |-> "raised", value |-> EmptyDict, err |-> e]

\* an exception leaves readxl before the archive is open
RaiseOutside(e) ==
    /\ pc' = "raised"
    /\ outcome' = Raised(e)
    /\ UNCHANGED f_zip

\* an exception leaves the with block of readxl, and readxl
RaiseInside(e) ==
    /\ pc' = "raised"
    /\ outcome' = Raised(e)
    /\ f_zip' = ZipExit(f_zip)

(***************************************************************************)
(* readxl, lines 21-24: db = Database(); check_excelfile(fn)               *)
(***************************************************************************)
CheckFile ==
    /\ pc = "call"
    /\ db' = Database
    /\ LET checked == check_excelfile(fn, disk.exists)
       IN  IF checked.ok
           THEN pc' = "open" /\ UNCHANGED <<outcome, f_zip>>
           ELSE RaiseOutside(checked.err)
    /\ UNCHANGED <<fn, sheetnames, disk, call, sh_names, zip_sheetnames,
                   sharedString, sn_i, i, io, first>>

(***************************************************************************)
(* readxl, line 27: with zipfile.ZipFile(fn, 'r') as f_zip                 *)
(***************************************************************************)
OpenZip ==
    /\ pc = "open"
    /\ IF disk.zip
       THEN /\ f_zip' = ZipFile(disk)
            /\ disk' = FileAfterOpen(disk)
            /\ io' = Append(io, [op |-> "open", name |-> fn.s])
            /\ pc' = "workbook"
            /\ UNCHANGED outcome
       ELSE /\ RaiseOutside(Exception("BadZipFile", "File is not a zip file", <<>>))
            /\ UNCHANGED <<io, disk>>
    /\ UNCHANGED <<fn, sheetnames, call, db, sh_names, zip_sheetnames,
                   sharedString, sn_i, i, first>>

(***************************************************************************)
(* readxl, lines 30-31: sh_names = get_sheetnames(xl/workbook.xml)         *)
(***************************************************************************)
ReadWorkbook ==
    /\ pc = "workbook"
    /\ IF ~HasEntry(f_zip, WORKBOOK_XML)
       THEN /\ RaiseInside(KeyError)
            /\ UNCHANGED <<io, sh_names>>
       ELSE /\ io' = Append(io, [op |-> "read", name |-> WORKBOOK_XML])
            /\ LET names == get_sheetnames(EntryText(disk, WORKBOOK_XML))
               IN  IF names.ok
                   THEN /\ sh_names' = names.val
                        /\ pc' = "zipsheetnames"
                        /\ UNCHANGED <<outcome, f_zip>>
                   ELSE /\ RaiseInside(names.err)
                        /\ UNCHANGED sh_names
    /\ UNCHANGED <<fn, sheetnames, disk, call, db, zip_sheetnames,
                   sharedString, sn_i, i, first>>

(***************************************************************************)
(* readxl, lines 34-37: zip_sheetnames = get_zipsheetnames(f_zip), and the *)
(* test 'if sheetnames'                                                    *)
(***************************************************************************)
GetZipSheetnames ==
    /\ pc = "zipsheetnames"
    /\ zip_sheetnames' = get_zipsheetnames(f_zip.NameToInfo)
    /\ sn_i' = 1
    /\ pc' = IF sheetnames # <<>> THEN "filter" ELSE "shared"
    /\ UNCHANGED <<fn, sheetnames, disk, call, db, f_zip, sh_names,
                   sharedString, i, io, outcome, first>>

(***************************************************************************)
(* readxl, lines 38-43: one iteration of 'for sn in sheetnames'            *)
(***************************************************************************)
PopSheetname ==
    /\ pc = "filter"
    /\ LET sn == sheetnames[sn_i]
           pop_index == ListIndex(sh_names, sn)
       IN  IF \A k \in 1..Len(sh_names) : sh_names[k] # sn
           THEN /\ RaiseInside(Exception("ValueError", "Sheetname is not in the workbook", sn))
                /\ UNCHANGED <<zip_sheetnames, sn_i>>
           ELSE IF pop_index >= Len(zip_sheetnames)
           THEN /\ RaiseInside(IndexError)
                /\ UNCHANGED <<zip_sheetnames, sn_i>>
           ELSE /\ zip_sheetnames' = ListPop(zip_sheetnames, pop_index)
                /\ sn_i' = sn_i + 1
                /\ pc' = IF sn_i < Len(sheetnames) THEN "filter" ELSE "shared"
                /\ UNCHANGED <<outcome, f_zip>>
    /\ UNCHANGED <<fn, sheetnames, disk, call, db, sh_names, sharedString,
                   i, io, first>>

(***************************************************************************)
(* readxl, lines 46-50: the shared string table                            *)
(***************************************************************************)
LoadSharedStrings ==
    /\ pc = "shared"
    /\ IF HasEntry(f_zip, SHAREDSTRINGS_XML)
       THEN /\ io' = Append(io, [op |-> "read", name |-> SHAREDSTRINGS_XML])
            /\ sharedString' = get_sharedStrings(EntryText(disk, SHAREDSTRINGS_XML))
       ELSE /\ sharedString' = EmptyDict
            /\ UNCHANGED io
    /\ i' = 0
    /\ pc' = "sheets"
    /\ UNCHANGED <<fn, sheetnames, disk, call, db, f_zip, sh_names,
                   zip_sheetnames, sn_i, outcome, first>>

\* a variant of ScrapeSheet that pairs names and parts as zip() does: a part
\* beyond the last declared name is passed over
ScrapeSheet_truncating ==
    /\ pc = "sheets"
    /\ i < Len(zip_sheetnames)
    /\ LET zip_sheetname == zip_sheetnames[i + 1]
           data == scrape(EntryText(disk, zip_sheetname), sharedString)
       IN  /\ io' = Append(io, [op |-> "read", name |-> zip_sheetname])
           /\ IF i >= Len(sh_names)
              THEN /\ i' = i + 1
                   /\ UNCHANGED <<db, pc, outcome, f_zip>>
              ELSE IF ~data.ok
              THEN /\ RaiseInside(data.err)
                   /\ UNCHANGED <<db, i>>
              ELSE /\ db' = add_ws(db, sh_names[i + 1], data.val)
                   /\ i' = i + 1
                   /\ UNCHANGED <<pc, outcome, f_zip>>
    /\ UNCHANGED <<fn, sheetnames, disk, call, sh_names, zip_sheetnames,
                   sharedString, sn_i, first>>

(***************************************************************************)
(* readxl, lines 53-55: one iteration of the loop over zip_sheetnames      *)
(***************************************************************************)
ScrapeSheet ==
    /\ pc = "sheets"
    /\ i < Len(zip_sheetnames)
    /\ LET zip_sheetname == zip_sheetnames[i + 1]
           data == scrape(EntryText(disk, zip_sheetname), sharedString)
       IN  /\ io' = Append(io, [op |-> "read", name |-> zip_sheetname])
           /\ IF i >= Len(sh_names)
              THEN /\ RaiseInside(IndexError)
                   /\ UNCHANGED <<db, i>>
              ELSE IF ~data.ok
              THEN /\ RaiseInside(data.err)
                   /\ UNCHANGED <<db, i>>
              ELSE /\ db' = add_ws(db, sh_names[i + 1], data.val)
                   /\ i' = i + 1
                   /\ UNCHANGED <<pc, outcome, f_zip>>
    /\ UNCHANGED <<fn, sheetnames, disk, call, sh_names, zip_sheetnames,
                   sharedString, sn_i, first>>

(***************************************************************************)
(* readxl, lines 53-57: the loop and the with block end; return db         *)
(***************************************************************************)
Return ==
    /\ pc = "sheets"
    /\ i >= Len(zip_sheetnames)
    /\ f_zip' = ZipExit(f_zip)
    /\ outcome' = Returned(db)
    /\ pc' = "returned"
    /\ UNCHANGED <<fn, sheetnames, disk, call, db, sh_names, zip_sheetnames,
                   sharedString, sn_i, i, io, first>>

(***************************************************************************)
(* The caller keeps what the first call gave and calls readxl again with   *)
(* the same arguments; the new call starts with fresh locals.              *)
(***************************************************************************)
CallAgain ==
    /\ pc \in {"returned", "raised"}
    /\ call = 1
    /\ first' = outcome
    /\ call' = 2
    /\ pc' = "call"
    /\ outcome' = NoOutcome
    /\ db' = EmptyDict
    /\ f_zip' = NoZip
    /\ sh_names' = <<>>
    /\ zip_sheetnames' = <<>>
    /\ sharedString' = EmptyDict
    /\ sn_i' = 0
    /\ i' = 0
    /\ io' = <<>>
    /\ UNCHANGED <<fn, sheetnames, disk>>

Next ==
    \/ CheckFile
    \/ OpenZip
    \/ ReadWorkbook
    \/ GetZipSheetnames
    \/ PopSheetname
    \/ LoadSharedStrings
    \/ ScrapeSheet
    \/ Return
    \/ CallAgain

(***************************************************************************)
(* The inputs: paths, files and sheetnames arguments.  A workbook file is  *)
(* written out as Excel writes it, part by part, and readxl is given the   *)
(* characters.                                                             *)
(***************************************************************************)
P_XLSX == <<"b", ".", "x", "l", "s", "x">>
P_XLSM == <<"b", ".", "x", "l", "s", "m">>
P_UPPER == <<"b", ".", "X", "L", "S", "X">>
P_XLS == <<"b", ".", "x", "l", "s">>
P_NODOT == <<"x", "l", "s", "x">>
P_TWODOTS == <<"b", ".", "x", "l", "s", "x", ".", "b", "a", "k">>
WS_DIR == <<"x", "l", "/", "w", "o", "r", "k", "s", "h", "e", "e", "t", "s", "/", "s", "h", "e", "e", "t">>
XML_EXT == <<".", "x", "m", "l">>
RELS_NAME == <<"x", "l", "/", "w", "o", "r", "k", "s", "h", "e", "e", "t", "s", "/", "_", "r", "e", "l", "s", "/", "s", "h", "e", "e", "t", "1", ".", "x", "m", "l", ".", "r", "e", "l", "s">>
RELS_TEXT == <<"<", "R", "e", "l", "a", "t", "i", "o", "n", "s", "h", "i", "p", "s", "/", ">">>
WB_HEAD == <<"<", "w", "o", "r", "k", "b", "o", "o", "k", ">", "<", "s", "h", "e", "e", "t", "s", ">">>
WB_TAIL == <<"<", "/", "s", "h", "e", "e", "t", "s", ">", "<", "/", "w", "o", "r", "k", "b", "o", "o", "k", ">">>
WB_BAD == <<"<", "w", "o", "r", "k", "b", "o", "o", "k", ">", "<", "/", "w", "o", "r", "k", "b", "o", "o", "k", ">">>
SHEET_NAME_ATTR == <<"<", "s", "h", "e", "e", "t", " ", "n", "a", "m", "e", "=", "\"">>
SHEET_ID_ATTR == <<"\"", " ", "s", "h", "e", "e", "t", "I", "d", "=", "\"">>
SHEET_END == <<"\"", "/", ">">>
SST_HEAD == <<"<", "s", "s", "t", ">">>
SST_TAIL == <<"<", "/", "s", "s", "t", ">">>
SI_OPEN == <<"<", "s", "i", ">", "<", "t", ">">>
SI_CLOSE == <<"<", "/", "t", ">", "<", "/", "s", "i", ">">>
WS_HEAD == <<"<", "w", "o", "r", "k", "s", "h", "e", "e", "t", ">", "<", "s", "h", "e", "e", "t", "D", "a", "t", "a", ">">>
WS_TAIL == <<"<", "/", "s", "h", "e", "e", "t", "D", "a", "t", "a", ">", "<", "/", "w", "o", "r", "k", "s", "h", "e", "e", "t", ">">>
WS_NODATA == <<"<", "w", "o", "r", "k", "s", "h", "e", "e", "t", ">", "<", "/", "w", "o", "r", "k", "s", "h", "e", "e", "t", ">">>
ROW_OPEN == <<"<", "r", "o", "w", " ", "r", "=", "\"", "1", "\"", ">">>
ROW_CLOSE == <<"<", "/", "r", "o", "w", ">">>
C_TYPED == <<" ", "t", "=", "\"", "s", "\"">>
C_GT == <<">">>
C_CLOSE == <<"<", "/", "c", ">">>
C_EMPTY == <<" ", "s", "=", "\"", "1", "\"", "/", ">">>
Alice == <<"A", "l", "i", "c", "e">>
Bob == <<"B", "o", "b">>
Carol == <<"C", "a", "r", "o", "l">>
A1 == <<"A", "1">>
B2 == <<"B", "2">>
V42 == <<"4", "2">>
V1 == <<"1">>
V5 == <<"5">>

SeqsUpTo(S, n) == UNION {[1..k -> S] : k \in 0..n}

RECURSIVE Concat(_)
Concat(texts) == IF texts = <<>> THEN <<>> ELSE Head(texts) \o Concat(Tail(texts))

\* the k-th sheet is named Sk and stored in xl/worksheets/sheetk.xml
SheetName(k) == <<"S", Digits[k + 1]>>
PartName(k) == WS_DIR \o <<Digits[k + 1]>> \o XML_EXT
\* a name that differs from S1 by case only
LowerName == <<"s", "1">>

\* <workbook><sheets><sheet name="S1" sheetId="1"/>...</sheets></workbook>
MkWorkbook(names) ==
    WB_HEAD
    \o Concat([k \in 1..Len(names) |->
                  SHEET_NAME_ATTR \o names[k] \o SHEET_ID_ATTR \o <<Digits[k + 1]>> \o SHEET_END])
    \o WB_TAIL

\* <sst><si><t>Alice</t></si>...</sst>
MkSharedStrings(strings) ==
    SST_HEAD
    \o Concat([k \in 1..Len(strings) |-> SI_OPEN \o strings[k] \o SI_CLOSE])
    \o SST_TAIL

\* <c r="A1" t="s"><v>1</v></c>, or <c r="A1" s="1"/> for a cell without value
MkCell(c) ==
    TAG_CR \o QUOTE \o c.addr \o QUOTE
    \o (IF c.typed THEN C_TYPED ELSE <<>>)
    \o (IF c.hasV THEN C_GT \o TAG_V_OPEN \o c.val \o TAG_V_CLOSE \o C_CLOSE ELSE C_EMPTY)

\* <worksheet><sheetData><row r="1">cells</row></sheetData></worksheet>
MkSheet(cells) ==
    WS_HEAD \o ROW_OPEN \o Concat([k \in 1..Len(cells) |-> MkCell(cells[k])])
    \o ROW_CLOSE \o WS_TAIL

Literal(a, v) == [addr |-> a, typed |-> FALSE, hasV |-> TRUE, val |-> v]
StringCell(a, v) == [addr |-> a, typed |-> TRUE, hasV |-> TRUE, val |-> v]
EmptyCell(a) == [addr |-> a, typed |-> FALSE, hasV |-> FALSE, val |-> <<>>]

Cells ==
    UNION {{Literal(a, V42), StringCell(a, V1), StringCell(a, V5), EmptyCell(a)} :
              a \in {A1, B2}}

SharedStringsList == <<Alice, Bob, Carol>>

NoFile == [exists |-> FALSE, zip |-> FALSE, entries |-> <<>>]
NotZip == [exists |-> TRUE, zip |-> FALSE, entries |-> <<>>]
Archive(entries) == [exists |-> TRUE, zip |-> TRUE, entries |-> entries]
Entry(name, text) == [name |-> name, text |-> text]

SharedStringsEntries(hasShared) ==
    IF hasShared
    THEN <<Entry(SHAREDSTRINGS_XML, MkSharedStrings(SharedStringsList))>>
    ELSE <<>>

\* the cells of the k-th worksheet part of a workbook of several sheets
PartCells(k) ==
    IF k = 1 THEN <<Literal(A1, V42)>>
    ELSE IF k = 2 THEN <<StringCell(A1, V1), Literal(B2, V42)>>
    ELSE <<Literal(A1, <<Digits[k + 1]>>)>>

\* a workbook that declares nNames sheets and holds nParts worksheet parts
Workbook(nNames, nParts, hasShared, hasRels) ==
    Archive(<<Entry(WORKBOOK_XML, MkWorkbook([k \in 1..nNames |-> SheetName(k)]))>>
            \o [k \in 1..nParts |-> Entry(PartName(k), MkSheet(PartCells(k)))]
            \o (IF hasRels THEN <<Entry(RELS_NAME, RELS_TEXT)>> ELSE <<>>)
            \o SharedStringsEntries(hasShared))

\* a workbook of one sheet with the given cells
OneSheet(cells, hasShared) ==
    Archive(<<Entry(WORKBOOK_XML, MkWorkbook(<<SheetName(1)>>)),
              Entry(PartName(1), MkSheet(cells))>>
            \o SharedStringsEntries(hasShared))

Workbooks ==
    {Workbook(n, m, s, r) : n \in 0..MaxSheets, m \in 0..MaxParts,
                            s \in BOOLEAN, r \in BOOLEAN}

OneSheets == {OneSheet(cells, s) : cells \in SeqsUpTo(Cells, MaxCells), s \in BOOLEAN}

\* archives with a part missing or without its section
Broken ==
    {Archive(<<Entry(WORKBOOK_XML, WB_BAD), Entry(PartName(1), MkSheet(PartCells(1)))>>),
     Archive(<<Entry(PartName(1), MkSheet(PartCells(1)))>>),
     Archive(<<Entry(WORKBOOK_XML, MkWorkbook(<<SheetName(1)>>)),
               Entry(PartName(1), WS_NODATA)>>)}

\* requests of the first two sheets and of a name that no workbook declares
Requests == SeqsUpTo({SheetName(1), SheetName(2), LowerName}, MaxReq)

Str(s) == [isStr |-> TRUE, s |-> s]
NotStr == [isStr |-> FALSE, s |-> <<>>]
Paths == {Str(P_XLSX), Str(P_XLSM), Str(P_UPPER), Str(P_XLS), Str(P_NODOT),
          Str(P_TWODOTS), NotStr}

\* every workbook and request is read through the path b.xlsx; the other
\* paths name a missing file, a file that is no archive, or one workbook
Inputs ==
    {<<Str(P_XLSX), w, r>> : w \in Workbooks, r \in Requests}
    \cup {<<Str(P_XLSX), w, <<>>>> : w \in OneSheets \cup Broken}
    \cup {<<p, w, <<>>>> : p \in Paths,
                           w \in {NoFile, NotZip, Workbook(1, 1, FALSE, FALSE)}}

Init ==
    \E input \in Inputs :
        /\ fn = input[1]
        /\ disk = input[2]
        /\ sheetnames = input[3]
        /\ pc = "call"
        /\ call = 1
        /\ db = EmptyDict
        /\ f_zip = NoZip
        /\ sh_names = <<>>
        /\ zip_sheetnames = <<>>
        /\ sharedString = EmptyDict
        /\ sn_i = 0
        /\ i = 0
        /\ io = <<>>
        /\ outcome = NoOutcome
        /\ first = NoOutcome

Spec == Init /\ [][Next]_vars

(***************************************************************************)
(* What the properties speak of.                                           *)
(***************************************************************************)
Terminal == pc \in {"returned", "raised"}
Range(list) == {list[k] : k \in 1..Len(list)}

\* the sheet names the manifest of the file declares
Declared == get_sheetnames(EntryText(disk, WORKBOOK_XML)).val
\* the worksheet parts of the file, in the order of the archive
MatchedParts == get_zipsheetnames([k \in 1..Len(disk.entries) |-> disk.entries[k].name])
\* the <t> texts of the shared-strings part in order of occurrence, none when
\* the file has no such part
SharedTexts ==
    IF \E k \in 1..Len(disk.entries) : disk.entries[k].name = SHAREDSTRINGS_XML
    THEN LazyFindAll(EntryText(disk, SHAREDSTRINGS_XML), TAG_T_OPEN, TAG_T_CLOSE)
    ELSE <<>>
SharedTable == [r \in 0..(Len(SharedTexts) - 1) |-> SharedTexts[r + 1]]

\* the text of the k-th worksheet part the running call is to scrape, and the
\* grid stored for it
PartText(k) == EntryText(disk, zip_sheetnames[k])
GridOf(k) == db[sh_names[k]]

\* the cell declarations of the <sheetData> section of a worksheet text
Fragments(text) ==
    LET section == LookaroundFirst(text, TAG_SHEETDATA_OPEN, TAG_SHEETDATA_CLOSE)
    IN  IF section.ok THEN CellLines(section.val) ELSE <<>>
\* the first quoted token of a declaration, its <v> token and its t="s" marker
AddressOf(line) == Split(line, QUOTE)[2]
HasValueToken(line) == LookaroundFirst(line, TAG_V_OPEN, TAG_V_CLOSE).ok
ValueToken(line) == LookaroundFirst(line, TAG_V_OPEN, TAG_V_CLOSE).val
IsStringTyped(line) == Contains(line, T_S)
\* the value the declaration stands for
CellValue(line) ==
    IF IsStringTyped(line)
    THEN SharedTexts[DecimalValue(ValueToken(line)) + 1]
    ELSE ValueToken(line)

\* a string-typed cell of the text names an index that the table lacks
HasUnresolved(text) ==
    \E k \in 1..Len(Fragments(text)) :
        LET line == Fragments(text)[k]
        IN  /\ IsStringTyped(line)
            /\ HasValueToken(line)
            /\ int(ValueToken(line)).ok
            /\ int(ValueToken(line)).val >= Len(SharedTexts)

\* the request names no sheet twice
DistinctRequest ==
    \A j, k \in 1..Len(sheetnames) : j # k => sheetnames[j] # sheetnames[k]

\* a readable path and a well-formed workbook: distinct declared names, one
\* worksheet part per name, every part scrapable
ValidWorkbook ==
    /\ check_excelfile(fn, disk.exists).ok
    /\ disk.zip
    /\ \E k \in 1..Len(disk.entries) : disk.entries[k].name = WORKBOOK_XML
    /\ get_sheetnames(EntryText(disk, WORKBOOK_XML)).ok
    /\ \A j, k \in 1..Len(Declared) : j # k => Declared[j] # Declared[k]
    /\ Len(MatchedParts) = Len(Declared)
    /\ \A k \in 1..Len(MatchedParts) :
           scrape_worksheetxml(EntryText(disk, MatchedParts[k]), SharedTable).ok

(***************************************************************************)
(* C1: for a well-formed workbook and a sheetnames argument whose names    *)
(* are all declared, readxl returns a Database with as many distinct sheet *)
(* names as were requested, or as many as are declared when sheetnames is  *)
(* empty.  Stated for requests that name no sheet twice.                   *)
(***************************************************************************)
C1_SheetCount ==
    (/\ Terminal
     /\ ValidWorkbook
     /\ DistinctRequest
     /\ Range(sheetnames) \subseteq Range(Declared))
    => /\ outcome.kind = "returned"
       /\ Cardinality(DOMAIN outcome.value) =
              IF sheetnames = <<>> THEN Len(Declared) ELSE Len(sheetnames)

(***************************************************************************)
(* C2: when sheetnames is not empty, the Database that readxl returns      *)
(* holds exactly the requested names, each keyed to the grid scraped from  *)
(* the worksheet part at the position the name has in the manifest.        *)
(***************************************************************************)
C2_SelectedSubset ==
    (pc = "returned" /\ sheetnames # <<>>)
    => /\ DOMAIN outcome.value = Range(sheetnames)
       /\ \A sn \in Range(sheetnames) :
              LET position == ListIndex(sh_names, sn) + 1
              IN  /\ position <= Len(MatchedParts)
                  /\ scrape(EntryText(disk, MatchedParts[position]), sharedString).ok
                  /\ outcome.value[sn] =
                         scrape(EntryText(disk, MatchedParts[position]), sharedString).val

(***************************************************************************)
(* C3: when a requested name is not declared in the manifest, readxl fails *)
(* with the ValueError that names an undeclared sheet, whatever the other  *)
(* requested names and their order.  Stated for well-formed workbooks and  *)
(* requests that name no sheet twice, where nothing but the undeclared     *)
(* name is at fault.                                                       *)
(***************************************************************************)
C3_SheetNotFound ==
    (/\ Terminal
     /\ ValidWorkbook
     /\ DistinctRequest
     /\ ~(Range(sheetnames) \subseteq Range(Declared)))
    => /\ outcome.kind = "raised"
       /\ outcome.err.type = "ValueError"
       /\ outcome.err.msg = "Sheetname is not in the workbook"
       /\ outcome.err.arg \in Range(sheetnames) \ Range(Declared)

(***************************************************************************)
(* C4: a scanned cell declaration stores, under its address, the shared    *)
(* string whose zero-based rank in the shared-strings part is the value    *)
(* token when the declaration carries t="s", and the value token itself    *)
(* otherwise.  (An address declared more than once is the matter of C10.)  *)
(***************************************************************************)
C4_CellValues ==
    \A j \in 1..i :
        LET lines == Fragments(PartText(j))
        IN  \A k \in 1..Len(lines) :
                (\A m \in 1..Len(lines) : m # k => AddressOf(lines[m]) # AddressOf(lines[k]))
                => /\ AddressOf(lines[k]) \in DOMAIN GridOf(j)
                   /\ GridOf(j)[AddressOf(lines[k])] = CellValue(lines[k])

\* a returned grid with A1 = "Bob", from <c r="A1" t="s"><v>1</v></c>, and
\* B2 = "42", from <c r="B2"><v>42</v></c>
C4_Witness ==
    /\ pc = "returned"
    /\ \E j \in 1..i :
           LET lines == Fragments(PartText(j))
           IN  /\ Len(lines) = 2
               /\ AddressOf(lines[1]) = A1
               /\ IsStringTyped(lines[1])
               /\ ValueToken(lines[1]) = V1
               /\ GridOf(j)[A1] = Bob
               /\ AddressOf(lines[2]) = B2
               /\ ~IsStringTyped(lines[2])
               /\ ValueToken(lines[2]) = V42
               /\ GridOf(j)[B2] = V42

(***************************************************************************)
(* C5: a string-typed cell whose index the shared-string table lacks makes *)
(* the scrape of its part fail: no grid is stored for the part, and a call *)
(* that has such a part to scrape returns no Database.                     *)
(***************************************************************************)
C5_UnresolvedFails ==
    \A j \in 1..Len(zip_sheetnames) :
        HasUnresolved(PartText(j)) => (i < j /\ pc # "returned")

\* the call failed with KeyError on a part that asks for index 5 of a table
\* of three strings
C5_Witness ==
    /\ pc = "raised"
    /\ outcome.err = KeyError
    /\ Len(SharedTexts) = 3
    /\ i < Len(zip_sheetnames)
    /\ HasUnresolved(PartText(i + 1))
    /\ \E k \in 1..Len(Fragments(PartText(i + 1))) :
           /\ IsStringTyped(Fragments(PartText(i + 1))[k])
           /\ ValueToken(Fragments(PartText(i + 1))[k]) = V5

(***************************************************************************)
(* C10: a grid that the scraper returns has exactly the addresses of the   *)
(* '<c r=' declarations of the <sheetData> section as its keys (the text   *)
(* before the first declaration gives none), and an address declared more  *)
(* than once has the value of its last declaration.                        *)
(***************************************************************************)
C10_GridEntries ==
    \A j \in 1..i :
        LET lines == Fragments(PartText(j))
        IN  /\ DOMAIN GridOf(j) = {AddressOf(lines[k]) : k \in 1..Len(lines)}
            /\ \A k \in 1..Len(lines) :
                   (\A m \in (k + 1)..Len(lines) : AddressOf(lines[m]) # AddressOf(lines[k]))
                   => GridOf(j)[AddressOf(lines[k])] = CellValue(lines[k])

\* a returned grid of one entry, from two declarations of A1 with different
\* values, that holds the second
C10_Witness ==
    /\ pc = "returned"
    /\ \E j \in 1..i :
           LET lines == Fragments(PartText(j))
           IN  /\ Len(lines) = 2
               /\ AddressOf(lines[1]) = AddressOf(lines[2])
               /\ CellValue(lines[1]) # CellValue(lines[2])
               /\ Cardinality(DOMAIN GridOf(j)) = 1
               /\ GridOf(j)[AddressOf(lines[2])] = CellValue(lines[2])

(***************************************************************************)
(* C6, as claimed: no grid is added to the Database, and no Database is    *)
(* returned, unless the declared sheet names and the matched worksheet     *)
(* parts are equally many.                                                 *)
(***************************************************************************)
C6_EqualLengthOrFail ==
    (pc = "returned" \/ db # EmptyDict) => Len(sh_names) = Len(MatchedParts)

(***************************************************************************)
(* C6, amended: readxl compares no lengths.  It fails as soon as the loop  *)
(* reaches a worksheet part that has no declared name at its position, so  *)
(* no grid is stored beyond the declared names and no Database is returned *)
(* when more parts are left to scrape than names are declared; with fewer  *)
(* parts than names it returns a Database of one sheet per part, keyed by  *)
(* the first declared names.                                               *)
(***************************************************************************)
C6_FailsOnlyOnMoreParts ==
    /\ i <= Len(sh_names)
    /\ pc = "returned" =>
           /\ Len(zip_sheetnames) <= Len(sh_names)
           /\ DOMAIN outcome.value = {sh_names[k] : k \in 1..Len(zip_sheetnames)}

\* all sheets were asked for, the archive holds more worksheet parts than the
\* manifest declares names, and the call failed with IndexError at the first
\* part without a name, after storing a grid for every name
C6_Witness ==
    /\ pc = "raised"
    /\ outcome.err = IndexError
    /\ sheetnames = <<>>
    /\ Len(MatchedParts) > Len(sh_names)
    /\ i = Len(sh_names)
    /\ i >= 1
    /\ DOMAIN db = Range(sh_names)

(***************************************************************************)
(* C7: a second call of readxl on the same file with the same sheetnames   *)
(* ends as the first did, with the same error or with a Database of the    *)
(* same sheets, addresses and values; no step of a call changes the file.  *)
(***************************************************************************)
C7_Idempotent ==
    [][/\ disk' = disk
       /\ (call' = 2 /\ pc' \in {"returned", "raised"}) => outcome' = first']_vars

\* the second call returned a Database with a grid in it, as the first did
C7_Witness ==
    /\ call = 2
    /\ pc = "returned"
    /\ first.kind = "returned"
    /\ \E n \in DOMAIN outcome.value : outcome.value[n] # EmptyDict

(***************************************************************************)
(* C8: when a call has ended, by return or by any exception, the archive   *)
(* is closed, and a call that ended by an exception gave its caller no     *)
(* Database, whatever db held by then.                                     *)
(***************************************************************************)
C8_ClosedOnExit ==
    Terminal =>
        /\ ~f_zip.open
        /\ pc = "raised" => (outcome.kind = "raised" /\ outcome.value = EmptyDict)
        /\ pc = "returned" => outcome = Returned(db)

\* a call that failed after it opened the archive and stored a grid in db
C8_Witness ==
    /\ pc = "raised"
    /\ \E k \in 1..Len(io) : io[k].op = "open"
    /\ db # EmptyDict
    /\ ~f_zip.open

(***************************************************************************)
(* C9: when fn is no str, names no existing file, or has a last            *)
(* dot-delimited segment other than 'xlsx' and 'xlsm', readxl fails with   *)
(* the ValueError of check_excelfile and never opens the archive or reads  *)
(* an entry; the archive is opened only when the three tests passed.       *)
(***************************************************************************)
LastSegment(path) == SubSeq(path, FindLast(path, DOT, 1) + 1, Len(path))
PathIsValid == fn.isStr /\ disk.exists /\ LastSegment(fn.s) \in {XLSX, XLSM}

C9_ValidationFirst ==
    /\ ~PathIsValid =>
           /\ io = <<>>
           /\ ~f_zip.open
           /\ pc \in {"call", "raised"}
           /\ pc = "raised" =>
                  /\ outcome.err.type = "ValueError"
                  /\ outcome.err.msg \in {"Incorrect file entry", "File does not exit",
                                          "Incorrect Excel file extension"}
    /\ (io # <<>> \/ f_zip.open) => PathIsValid

\* an existing archive named b.XLSX was refused and never opened
C9_Witness ==
    /\ pc = "raised"
    /\ fn = Str(P_UPPER)
    /\ disk.zip
    /\ outcome.err.msg = "Incorrect Excel file extension"
    /\ io = <<>>
====
